---------------------------- MODULE Spec2Model ----------------------------
(***************************************************************************)
(* Live match / substitution / playtime engine of the junior soccer        *)
(* backend: the match lifecycle (schedule, start, substitute, end), the    *)
(* per-player playtime ledger, statistics materialization and the team     *)
(* auto-generator.                                                         *)
(*                                                                         *)
(* One match document and the Statistics collection of that match are      *)
(* modelled, together with a fixed roster of players.  Every request       *)
(* handler is one action: it reads the persisted documents, and either     *)
(* answers with an error code and persists nothing, or persists its        *)
(* changes.  Time is counted in units of half a minute, so that the        *)
(* Math.floor of the minute computations is visible.                       *)
(*                                                                         *)
(* Player ids are numbers; an element of teamSheet, the playerId of a      *)
(* performance and a ledger key denote the same player when they carry     *)
(* the same id (toString() of any of them is taken to be the id).          *)
(*                                                                         *)
(* save() of a document persists the document as the handler holds it; the *)
(* handlers and schemas ask for no version check, and none is modelled.    *)
(***************************************************************************)
EXTENDS Integers, Sequences, FiniteSets, TLC

(***************************************************************************)
(* Bounds of the model.                                                    *)
(***************************************************************************)
NumPlayers == 12      \* players in the roster, ids 1..NumPlayers
MaxTime == 2          \* the clock runs from 0 to MaxTime half-minutes
MaxSubs == 2          \* substitutions applied to the match
MaxRequests == 2      \* logInjury requests handled concurrently
MaxInjuries == 2      \* injuries logged for one player in one match

(***************************************************************************)
(* Program constants.                                                      *)
(***************************************************************************)
Minute == 2           \* 1000 * 60 ms, in half-minute units
TeamSize == 11        \* players of a full team

Players == 1..NumPlayers
NoPlayer == 0         \* a well-formed id that resolves to no player
InputIds == {0, 1, 2, 3}   \* player ids named in request bodies
Absent == "absent"    \* a field the request body does not carry

Positions == {"Goalkeeper", "Defender", "Midfielder", "Forward"}

(***************************************************************************)
(* Sequence helpers (Array.prototype methods used by the handlers).        *)
(***************************************************************************)
Range(s) == {s[i] : i \in DOMAIN s}

Includes(s, x) == \E i \in DOMAIN s : s[i] = x

\* Array.prototype.indexOf, 1-based; 0 when x is not an element
IndexOf(s, x) ==
  IF Includes(s, x) THEN CHOOSE i \in DOMAIN s : s[i] = x /\ \A j \in 1..(i-1) : s[j] # x
  ELSE 0

RECURSIVE SeqSum(_)
SeqSum(s) == IF s = <<>> THEN 0 ELSE s[1] + SeqSum(Tail(s))

\* all sequences over S of length 0..n
SeqsUpTo(S, n) == UNION {[1..k -> S] : k \in 0..n}

(***************************************************************************)
(* The roster (Player collection).  position and preferredPositions are    *)
(* those of the player documents; Player 1 is a defender who also lists    *)
(* Midfielder, players 2 and 3 are goalkeepers; the players beyond a full  *)
(* team are unavailable.                                                   *)
(***************************************************************************)
RosterPosition(p) ==
  CASE p = 1 -> "Defender"
    [] p \in {2, 3} -> "Goalkeeper"
    [] p \in {4, 5, 6} -> "Defender"
    [] p \in {7, 8, 9} -> "Midfielder"
    [] OTHER -> "Forward"

RosterPreferred(p) ==
  IF p = 1 THEN {"Defender", "Midfielder"} ELSE {RosterPosition(p)}

playerSchema(p) ==
  [ position |-> RosterPosition(p),
    preferredPositions |-> RosterPreferred(p),
    injuryStatus |-> "Healthy",
    availability |-> (p <= TeamSize) ]

VARIABLES
  players,      \* Player collection: id -> document
  match,        \* the persisted Match document (status "none": not created)
  statistics,   \* Statistics collection, in insertion order
  now,          \* the clock, in half-minutes
  res,          \* the handler that ran last and its HTTP status
  inflight,     \* handlers suspended at an await, with what they have read
  socket        \* req.app.get('socketio') and what the last handler emitted on it

vars == <<players, match, statistics, now, res, inflight, socket>>

(***************************************************************************)
(* Match document.                                                         *)
(***************************************************************************)
NoResult == [result |-> Absent, ourScore |-> 0, opponentScore |-> 0]

matchSchema(type, sheet, status, created) ==
  [ status |-> status,
    type |-> type,
    teamSheet |-> sheet,
    substitutions |-> <<>>,
    playtime |-> <<>>,
    matchResult |-> NoResult,
    playerPerformances |-> <<>>,
    createdAt |-> created ]

NoMatch == matchSchema("match", <<>>, "none", 0)

\* matchSchema.methods.getPlayerPlaytime on a ledger
getPlayerPlaytime(pt, p) == IF p \in DOMAIN pt THEN pt[p] ELSE 0

\* matchSchema.methods.updatePlayerPlaytime on a ledger
updatePlayerPlaytime(pt, p, minutes) ==
  [q \in (DOMAIN pt) \cup {p} |-> IF q = p THEN minutes ELSE pt[q]]

\* teamSheet.forEach(playerId => match.updatePlayerPlaytime(playerId, 0))
RECURSIVE InitPlaytime(_, _)
InitPlaytime(pt, sheet) ==
  IF sheet = <<>> THEN pt
  ELSE InitPlaytime(updatePlayerPlaytime(pt, Head(sheet), 0), Tail(sheet))

\* Player.find({_id: {$in: sheet}, availability: true}).length === sheet.length
AllAvailable(sheet) ==
  Cardinality({p \in Range(sheet) : p \in Players /\ players[p].availability}) = Len(sheet)

\* the response of a handler, until the client has taken it
NoResponse == [op |-> "none", code |-> 0]
\* the app has no 'socketio' set; nothing was emitted
NoSocket == [mode |-> "absent", emitted |-> <<>>]
\* a handler that is not running
NoTask == [step |-> "none"]
\* no handler is suspended: the statistics materialization of endMatch, each
\* logInjury request and each makeSubstitution request are at rest
NoRequests == [ mat |-> NoTask,
                inj |-> [r \in 1..MaxRequests |-> NoTask],
                sub |-> [r \in 1..MaxRequests |-> NoTask] ]
Idle == res = NoResponse
Respond(op, code) == res' = [op |-> op, code |-> code]

\* team sheets of request bodies: empty, valid ones, one with a repeated
\* player and one with an id that is no player
SheetInputs == {<<>>, <<1, 2>>, <<1, 1>>, <<0>>}
Types == {"match", "training"}

(***************************************************************************)
(* POST /api/schedules                                                     *)
(***************************************************************************)
createSchedule(type, sheet) ==
  /\ Idle
  /\ match.status = "none"
  /\ IF Len(sheet) > 0 /\ ~AllAvailable(sheet)
     THEN /\ Respond("createSchedule", 400)
          /\ UNCHANGED match
     ELSE /\ match' = matchSchema(type, sheet, "scheduled", now)
          /\ Respond("createSchedule", 201)
  /\ UNCHANGED <<players, statistics, now, inflight, socket>>

(***************************************************************************)
(* POST /api/matches/start                                                 *)
(***************************************************************************)
startMatch(type, sheet) ==
  /\ Idle
  /\ match.status = "none"
  /\ IF Len(sheet) > 0 /\ ~AllAvailable(sheet)
     THEN /\ Respond("startMatch", 400)
          /\ UNCHANGED match
     ELSE /\ match' = [matchSchema(type, sheet, "ongoing", now)
                         EXCEPT !.playtime = InitPlaytime(<<>>, sheet)]
          /\ Respond("startMatch", 201)
  /\ UNCHANGED <<players, statistics, now, inflight, socket>>

(***************************************************************************)
(* PUT /api/schedules/:id                                                  *)
(***************************************************************************)
Statuses == {"scheduled", "ongoing", "completed", "cancelled"}
\* status of update bodies
StatusInputs == {Absent, "ongoing", "completed", "cancelled"}

\* team sheets of update bodies: a valid one and one with an id that is no player
UpdateSheets == {<<2>>, <<0>>}

\* substitutions arrays of update bodies
UpdateSubstitutions == {<<>>}

\* body: type (required by validateMatch), teamSheet when hasSheet, status
\* unless Absent, substitutions when hasSubstitutions;
\* Match.findByIdAndUpdate(id, req.body) sets what the body carries
updateSchedule(type, hasSheet, sheet, status, hasSubstitutions, substitutions) ==
  /\ Idle
  /\ IF match.status = "none"
     THEN /\ Respond("updateSchedule", 404)
          /\ UNCHANGED match
     ELSE IF match.status = "completed"
     THEN /\ Respond("updateSchedule", 400)
          /\ UNCHANGED match
     ELSE IF hasSheet /\ ~AllAvailable(sheet)
     THEN /\ Respond("updateSchedule", 400)
          /\ UNCHANGED match
     ELSE /\ match' = [match EXCEPT
                         !.type = type,
                         !.teamSheet = IF hasSheet THEN sheet ELSE @,
                         !.status = IF status = Absent THEN @ ELSE status,
                         !.substitutions = IF hasSubstitutions THEN substitutions ELSE @]
          /\ Respond("updateSchedule", 200)
  /\ UNCHANGED <<players, statistics, now, inflight, socket>>

cancelSchedule_NoCompletedCheck ==
  /\ Idle
  /\ IF match.status = "none"
     THEN /\ Respond("cancelSchedule", 404)
          /\ UNCHANGED match
     ELSE IF match.status = "ongoing"
     THEN /\ Respond("cancelSchedule", 400)
          /\ UNCHANGED match
     ELSE /\ match' = [match EXCEPT !.status = "cancelled"]
          /\ Respond("cancelSchedule", 200)
  /\ UNCHANGED <<players, statistics, now, inflight, socket>>

(***************************************************************************)
(* DELETE /api/schedules/:id                                               *)
(***************************************************************************)
cancelSchedule ==
  /\ Idle
  /\ IF match.status = "none"
     THEN /\ Respond("cancelSchedule", 404)
          /\ UNCHANGED match
     ELSE IF match.status = "completed" \/ match.status = "ongoing"
     THEN /\ Respond("cancelSchedule", 400)
          /\ UNCHANGED match
     ELSE /\ match' = [match EXCEPT !.status = "cancelled"]
          /\ Respond("cancelSchedule", 200)
  /\ UNCHANGED <<players, statistics, now, inflight, socket>>

(***************************************************************************)
(* Team auto-generator (generateOptimalTeam).                              *)
(***************************************************************************)
Min(a, b) == IF a < b THEN a ELSE b

\* s.slice(0, n)
Take(s, n) == SubSeq(s, 1, Min(n, Len(s)))

\* the elements of the set S as a sequence in ascending order
RECURSIVE Ascending(_)
Ascending(S) ==
  IF S = {} THEN <<>>
  ELSE LET x == CHOOSE y \in S : \A z \in S : y <= z
       IN  <<x>> \o Ascending(S \ {x})

\* x put behind every element of the sorted s whose key is not greater
RECURSIVE InsertByKey(_, _, _)
InsertByKey(x, s, key) ==
  IF s = <<>> THEN <<x>>
  ELSE IF key[x] < key[Head(s)] THEN <<x>> \o s
  ELSE <<Head(s)>> \o InsertByKey(x, Tail(s), key)

\* Array.prototype.sort((a, b) => key[a] - key[b]), which is stable
RECURSIVE SortInto(_, _, _)
SortInto(acc, s, key) ==
  IF s = <<>> THEN acc ELSE SortInto(InsertByKey(Head(s), acc, key), Tail(s), key)

SortByKey(s, key) == SortInto(<<>>, s, key)

\* playersByPosition[position]
PositionBucket(availablePlayers, position, docs) ==
  IF position = "Goalkeeper"
  THEN SelectSeq(availablePlayers, LAMBDA p : docs[p].position = "Goalkeeper")
  ELSE SelectSeq(availablePlayers,
                 LAMBDA p : docs[p].position = position
                            \/ position \in docs[p].preferredPositions)

\* the sort key of a bucket
SelectionScore(availablePlayers, playerPlaytime, position, prioritizeRest, docs) ==
  [p \in Range(availablePlayers) |->
     IF prioritizeRest THEN playerPlaytime[p]
     ELSE playerPlaytime[p] + (IF docs[p].position = position THEN 0 ELSE 1) * 10]

\* formation: the numbers of "D-M-F" after split('-').map(parseInt)
generateOptimalTeam(availablePlayers, playerPlaytime, formation, prioritizeRest, docs) ==
  LET defenders == formation[1]
      midfielders == formation[2]
      forwards == formation[3]
      goalkeepers == 1
      sorted(position) ==
        SortByKey(PositionBucket(availablePlayers, position, docs),
                  SelectionScore(availablePlayers, playerPlaytime, position,
                                 prioritizeRest, docs))
      selectedTeam ==
        Take(sorted("Goalkeeper"), goalkeepers) \o Take(sorted("Defender"), defenders)
          \o Take(sorted("Midfielder"), midfielders) \o Take(sorted("Forward"), forwards)
      totalNeeded == goalkeepers + defenders + midfielders + forwards
      remainingPlayers ==
        SortByKey(SelectSeq(availablePlayers, LAMBDA p : ~Includes(selectedTeam, p)),
                  playerPlaytime)
      filled ==
        IF Len(selectedTeam) < totalNeeded
        THEN selectedTeam \o Take(remainingPlayers, totalNeeded - Len(selectedTeam))
        ELSE selectedTeam
  IN  Take(filled, TeamSize)

(***************************************************************************)
(* POST /api/schedules/:id/generate-team                                   *)
(***************************************************************************)
Formations == {<<4, 4, 2>>}
EligibleStatuses == {"Healthy", "Minor Injury"}

\* Player.find({availability: true, injuryStatus: {$in: [...]}}), in id order
AvailablePlayers(docs) ==
  Ascending({p \in DOMAIN docs : docs[p].availability
                                   /\ docs[p].injuryStatus \in EligibleStatuses})

\* recent: minutes per player summed over the completed matches of the last
\* 30 days (documents outside this model); players without an entry have none
RecentPlaytime(availablePlayers, recent) ==
  [p \in Range(availablePlayers) |-> IF p \in DOMAIN recent THEN recent[p] ELSE 0]

generateTeamSheet(formation, prioritizeRest, recent) ==
  /\ Idle
  /\ LET availablePlayers == AvailablePlayers(players)
         playerPlaytime == RecentPlaytime(availablePlayers, recent)
     IN  IF match.status = "none"
         THEN /\ Respond("generateTeamSheet", 404)
              /\ UNCHANGED match
         ELSE IF match.status # "scheduled"
         THEN /\ Respond("generateTeamSheet", 400)
              /\ UNCHANGED match
         ELSE IF Len(availablePlayers) < TeamSize
         THEN /\ Respond("generateTeamSheet", 400)
              /\ UNCHANGED match
         ELSE /\ match' = [match EXCEPT !.teamSheet =
                             generateOptimalTeam(availablePlayers, playerPlaytime,
                                                 formation, prioritizeRest, players)]
              /\ Respond("generateTeamSheet", 200)
  /\ UNCHANGED <<players, statistics, now, inflight, socket>>

(***************************************************************************)
(* PUT /api/matches/:id/start                                              *)
(***************************************************************************)
startExistingMatch ==
  /\ Idle
  /\ IF match.status = "none"
     THEN /\ Respond("startExistingMatch", 404)
          /\ UNCHANGED match
     ELSE IF match.status # "scheduled"
     THEN /\ Respond("startExistingMatch", 400)
          /\ UNCHANGED match
     ELSE /\ match' = [match EXCEPT !.status = "ongoing"]
          /\ Respond("startExistingMatch", 200)
  /\ UNCHANGED <<players, statistics, now, inflight, socket>>

(***************************************************************************)
(* POST /api/matches/:id/substitute                                        *)
(***************************************************************************)
NoTime == -9          \* the request body carries no time
EarlyTime == -1       \* an explicit time half a minute before the match was created
TimeInputs == {NoTime, EarlyTime}
Reasons == {Absent, "Tactical", "Knee Injury", "TooLong Injury"}
InjuryInputs == {Absent, "Minor Injury", "Major Injury"}

\* reason.toLowerCase().includes('injury')
MentionsInjury(reason) == reason \in {"Knee Injury", "TooLong Injury"}

\* substitutionSchema.reason: maxlength 200
ReasonTooLong(reason) == reason = "TooLong Injury"

MinutesBetween_RoundUp(from, to) == (to - from + Minute - 1) \div Minute

\* Math.floor((to - from) / (1000 * 60))
MinutesBetween(from, to) == (to - from) \div Minute

InjuryUpdateAborts_Rethrow(injury, injuryOk) == injury /\ ~injuryOk

\* try { Player.findByIdAndUpdate } catch: whether a failed update of the
\* outgoing player's injury status ends the substitution; the catch logs the
\* error and goes on
InjuryUpdateAborts(injury, injuryOk) == FALSE

validateSubstitution_NoOnFieldCheck(m, playerIn, playerOut) ==
  IF m.status = "none" THEN 404
  ELSE IF m.status # "ongoing" THEN 400
  ELSE IF playerIn \notin Players \/ playerOut \notin Players THEN 404
  ELSE IF ~Includes(m.teamSheet, playerOut) THEN 400
  ELSE 200

\* the checks before a substitution is applied: the status of the error
\* response, 200 when the substitution goes ahead
validateSubstitution(m, playerIn, playerOut) ==
  IF m.status = "none" THEN 404
  ELSE IF m.status # "ongoing" THEN 400
  ELSE IF playerIn \notin Players \/ playerOut \notin Players THEN 404
  ELSE IF ~Includes(m.teamSheet, playerOut) THEN 400
  ELSE IF Includes(m.teamSheet, playerIn) THEN 400
  ELSE 200

\* the time of the substitution: req.body.time, or the clock
SubstitutionTime(time, at) == IF time = NoTime THEN at ELSE time

\* the record pushed to match.substitutions
SubstitutionRecord(playerIn, playerOut, substitutionTime, reason) ==
  [ playerIn |-> playerIn,
    playerOut |-> playerOut,
    time |-> substitutionTime,
    reason |-> IF reason = Absent THEN "Tactical substitution" ELSE reason ]

\* the match document makeSubstitution has built from m when it reaches
\* match.save(): ledger, team sheet and log
Substituted(m, playerIn, playerOut, substitutionTime, reason) ==
  LET minutesPlayed == MinutesBetween(m.createdAt, substitutionTime)
      currentPlaytime == getPlayerPlaytime(m.playtime, playerOut)
      pt1 == updatePlayerPlaytime(m.playtime, playerOut, currentPlaytime + minutesPlayed)
      pt2 == updatePlayerPlaytime(pt1, playerIn, getPlayerPlaytime(pt1, playerIn))
      teamSheetIndex == IndexOf(m.teamSheet, playerOut)
  IN  [m EXCEPT
         !.playtime = pt2,
         !.teamSheet[teamSheetIndex] = playerIn,
         !.substitutions = Append(@, SubstitutionRecord(playerIn, playerOut,
                                                        substitutionTime, reason))]

SocketModes == {"absent", "present", "failing"}
FairnessLimit == 20
NoAlert == [type |-> "none"]

checkPlaytimeFairness_AtLimit(pt) ==
  LET playtimes == {pt[p] : p \in DOMAIN pt}
      maxPlaytime == CHOOSE x \in playtimes : \A y \in playtimes : y <= x
      minPlaytime == CHOOSE x \in playtimes : \A y \in playtimes : x <= y
  IN  IF Cardinality(DOMAIN pt) < 2 THEN NoAlert
      ELSE IF maxPlaytime - minPlaytime >= FairnessLimit
      THEN [type |-> "unfair_playtime", difference |-> maxPlaytime - minPlaytime]
      ELSE NoAlert

\* checkPlaytimeFairness(match), on the values of the ledger
checkPlaytimeFairness(pt) ==
  LET playtimes == {pt[p] : p \in DOMAIN pt}
      maxPlaytime == CHOOSE x \in playtimes : \A y \in playtimes : y <= x
      minPlaytime == CHOOSE x \in playtimes : \A y \in playtimes : x <= y
  IN  IF Cardinality(DOMAIN pt) < 2 THEN NoAlert
      ELSE IF maxPlaytime - minPlaytime > FairnessLimit
      THEN [type |-> "unfair_playtime", difference |-> maxPlaytime - minPlaytime]
      ELSE NoAlert

\* what the handler emits after the match m was saved: nothing without a
\* socketio, nothing when emit throws (the error is caught and logged), else
\* the substitution and, on an unfair ledger, the playtime alert
Emitted(mode, m) ==
  IF mode # "present" THEN <<>>
  ELSE <<[ event |-> "substitution",
           substitution |-> m.substitutions[Len(m.substitutions)],
           playtime |-> m.playtime ]>>
       \o (IF checkPlaytimeFairness(m.playtime) # NoAlert
           THEN <<[ event |-> "playtime_alert",
                    alert |-> checkPlaytimeFairness(m.playtime) ]>>
           ELSE <<>>)

makeSubstitution(playerIn, playerOut, time, reason, injuryStatus, injuryOk) ==
  /\ Idle
  /\ IF validateSubstitution(match, playerIn, playerOut) # 200
     THEN /\ Respond("makeSubstitution", validateSubstitution(match, playerIn, playerOut))
          /\ socket' = [socket EXCEPT !.emitted = <<>>]
          /\ UNCHANGED <<match, players>>
     ELSE
       LET injury == reason # Absent /\ MentionsInjury(reason) /\ injuryStatus # Absent
           saved == Substituted(match, playerIn, playerOut,
                                SubstitutionTime(time, now), reason)
       IN  /\ Len(match.substitutions) < MaxSubs
           \* Player.findByIdAndUpdate, its failure is logged and ignored
           /\ players' = IF injury /\ injuryOk
                         THEN [players EXCEPT ![playerOut].injuryStatus = injuryStatus]
                         ELSE players
           \* match.save() validates the new substitution record
           /\ IF InjuryUpdateAborts(injury, injuryOk)
                 \/ (reason # Absent /\ ReasonTooLong(reason))
              THEN /\ Respond("makeSubstitution", 500)
                   /\ socket' = [socket EXCEPT !.emitted = <<>>]
                   /\ UNCHANGED match
              ELSE /\ match' = saved
                   /\ socket' = [socket EXCEPT !.emitted = Emitted(socket.mode, saved)]
                   /\ Respond("makeSubstitution", 200)
  /\ UNCHANGED <<statistics, now, inflight>>

(***************************************************************************)
(* Statistics materialization (createStatisticsFromMatch).                 *)
(***************************************************************************)
\* playerPerformanceSchema.minutesPlayed and statisticsSchema.minutesPlayed: min 0
ValidMinutes(minutes) == minutes >= 0

\* Statistics.findOne({playerId, matchId}): index of the first record, 0 if none
FindStats(stats, p) ==
  IF \E i \in DOMAIN stats : stats[i].playerId = p
  THEN CHOOSE i \in DOMAIN stats :
         stats[i].playerId = p /\ \A j \in 1..(i-1) : stats[j].playerId # p
  ELSE 0

\* new Statistics({...}) of the first loop (positionsPlayed is set right after)
NewStatistics(p, minutes, goals, position) ==
  [ playerId |-> p,
    minutesPlayed |-> minutes,
    goals |-> goals,
    positionsPlayed |-> <<position>>,
    injuries |-> <<>> ]

\* one pass of the first loop: upsert the record of one performance
UpsertPerformance(stats, perf, docs) ==
  LET i == FindStats(stats, perf.playerId)
      position == docs[perf.playerId].position
  IN  IF i # 0
      THEN [stats EXCEPT ![i].minutesPlayed = perf.minutesPlayed,
                         ![i].goals = perf.goals,
                         ![i].positionsPlayed = <<position>>]
      ELSE Append(stats, NewStatistics(perf.playerId, perf.minutesPlayed,
                                       perf.goals, position))

\* first loop: for (const performance of match.playerPerformances);
\* a stats.save() that fails validation throws and ends the materialization
RECURSIVE PerformanceLoop(_, _, _)
PerformanceLoop(acc, perfs, docs) ==
  IF perfs = <<>> \/ ~acc.ok THEN acc
  ELSE IF ~ValidMinutes(Head(perfs).minutesPlayed)
       THEN [acc EXCEPT !.ok = FALSE]
       ELSE PerformanceLoop([acc EXCEPT !.stats = UpsertPerformance(@, Head(perfs), docs)],
                            Tail(perfs), docs)

UpsertTeamSheetPlayer_AlwaysCreate(stats, p, minutes, docs) ==
  Append(stats, NewStatistics(p, minutes, 0, docs[p].position))

\* one pass of the second loop: a team sheet player without a performance
UpsertTeamSheetPlayer(stats, p, minutes, docs) ==
  LET i == FindStats(stats, p)
  IN  IF i # 0
      THEN [stats EXCEPT ![i].minutesPlayed = minutes]
      ELSE Append(stats, NewStatistics(p, minutes, 0, docs[p].position))

\* second loop: for (const playerId of match.teamSheet)
RECURSIVE TeamSheetLoop(_, _, _, _)
TeamSheetLoop(acc, sheet, m, docs) ==
  IF sheet = <<>> \/ ~acc.ok THEN acc
  ELSE LET p == Head(sheet)
           existingPerformance ==
             \E i \in DOMAIN m.playerPerformances : m.playerPerformances[i].playerId = p
           minutes == getPlayerPlaytime(m.playtime, p)
       IN  IF existingPerformance
           THEN TeamSheetLoop(acc, Tail(sheet), m, docs)
           ELSE IF ~ValidMinutes(minutes)
           THEN [acc EXCEPT !.ok = FALSE]
           ELSE TeamSheetLoop([acc EXCEPT !.stats = UpsertTeamSheetPlayer(@, p, minutes, docs)],
                              Tail(sheet), m, docs)

createStatisticsFromMatch_AllOrNothing(stats, m, docs) ==
  LET done == TeamSheetLoop(PerformanceLoop([stats |-> stats, ok |-> TRUE],
                                            m.playerPerformances, docs),
                            m.teamSheet, m, docs)
  IN  IF done.ok THEN done ELSE [stats |-> stats, ok |-> FALSE]

createStatisticsFromMatch_PerformancesOnly(stats, m, docs) ==
  PerformanceLoop([stats |-> stats, ok |-> TRUE], m.playerPerformances, docs)

\* the Statistics collection after createStatisticsFromMatch(m), and whether
\* it returned (ok) or threw
createStatisticsFromMatch(stats, m, docs) ==
  TeamSheetLoop(PerformanceLoop([stats |-> stats, ok |-> TRUE], m.playerPerformances, docs),
                m.teamSheet, m, docs)

(***************************************************************************)
(* PUT /api/matches/:id/end                                                *)
(***************************************************************************)
\* matchSchema.methods.calculateTeamGoals
RECURSIVE calculateTeamGoals(_)
calculateTeamGoals(perfs) ==
  IF perfs = <<>> THEN 0 ELSE Head(perfs).goals + calculateTeamGoals(Tail(perfs))

\* matchSchema.methods.validateMatchResult
validateMatchResult(m) ==
  IF m.matchResult.result = Absent \/ m.type # "match" THEN m
  ELSE [m EXCEPT !.matchResult.ourScore = calculateTeamGoals(m.playerPerformances)]

updatePlayerPerformance_AlwaysPush(perfs, p, goals, minutes) ==
  Append(perfs, [playerId |-> p, goals |-> goals, minutesPlayed |-> minutes])

\* matchSchema.methods.updatePlayerPerformance
updatePlayerPerformance(perfs, p, goals, minutes) ==
  IF \E i \in DOMAIN perfs : perfs[i].playerId = p
  THEN LET i == CHOOSE k \in DOMAIN perfs :
                  perfs[k].playerId = p /\ \A j \in 1..(k-1) : perfs[j].playerId # p
       IN  [perfs EXCEPT ![i].goals = goals, ![i].minutesPlayed = minutes]
  ELSE Append(perfs, [playerId |-> p, goals |-> goals, minutesPlayed |-> minutes])

PerformanceMinutes_Submitted(pt, performance) == performance.minutesPlayed

\* minutesPlayed: match.getPlayerPlaytime(performance.playerId)
PerformanceMinutes(pt, performance) == getPlayerPlaytime(pt, performance.playerId)

\* playerPerformances.forEach(performance => { if (performance.playerId) ... })
RECURSIVE MergePerformances(_, _, _)
MergePerformances(perfs, submitted, pt) ==
  IF submitted = <<>> THEN perfs
  ELSE LET performance == Head(submitted)
       IN  MergePerformances(
             IF performance.playerId = NoPlayer THEN perfs
             ELSE updatePlayerPerformance(perfs, performance.playerId, performance.goals,
                                          PerformanceMinutes(pt, performance)),
             Tail(submitted), pt)

\* the substitution that .filter(playerIn === p).sort((a, b) => b.time - a.time)[0]
\* yields: the latest one that brought p on, the first of them on equal times
LastSubstitutionTime(subs, p, matchStart) ==
  LET mine == {i \in DOMAIN subs : subs[i].playerIn = p}
  IN  IF mine = {} THEN matchStart
      ELSE subs[CHOOSE i \in mine :
                  \A j \in mine : subs[j].time < subs[i].time
                                  \/ (subs[j].time = subs[i].time /\ i <= j)].time

\* match.teamSheet.forEach: final playtime of the players on the field
RECURSIVE FinalPlaytime(_, _, _, _, _)
FinalPlaytime(pt, sheet, subs, matchStart, at) ==
  IF sheet = <<>> THEN pt
  ELSE LET p == Head(sheet)
           startTime == LastSubstitutionTime(subs, p, matchStart)
           timePlayed == MinutesBetween(startTime, at)
       IN  FinalPlaytime(updatePlayerPlaytime(pt, p, getPlayerPlaytime(pt, p) + timePlayed),
                         Tail(sheet), subs, matchStart, at)

Results == {Absent, "win", "abandoned"}
ValidResults_AnyString == {"win", "loss", "draw", "abandoned"}
\* ['win', 'loss', 'draw'].includes(matchResult.result)
ValidResults == {"win", "loss", "draw"}
Scores == {5}
\* submitted playerPerformances lists; playerId 0: an item without playerId;
\* every item claims SubmittedMinutes minutes played
SubmittedMinutes == 99
Perf(p, goals) == [playerId |-> p, goals |-> goals, minutesPlayed |-> SubmittedMinutes]
PerfInputs == { <<>>, <<Perf(1, 2), Perf(2, 1)>>, <<Perf(1, 1), Perf(0, 1), Perf(1, 2)>> }

\* matchResult: the submitted result (result Absent: no matchResult in the body);
\* hasPerformances: the body carries a playerPerformances array.
\* The document endMatch has built when it reaches match.save(), at instant at
EndedMatch(m, at, matchResult, hasPerformances, playerPerformances) ==
  LET pt == FinalPlaytime(m.playtime, m.teamSheet, m.substitutions, m.createdAt, at)
      m1 == [m EXCEPT !.playtime = pt, !.status = "completed"]
      merged == IF hasPerformances
                THEN MergePerformances(m1.playerPerformances, playerPerformances, pt)
                ELSE m1.playerPerformances
  IN  IF m1.type = "training"
      THEN [m1 EXCEPT !.playerPerformances = merged]
      ELSE LET m3 == [m1 EXCEPT
                        !.matchResult = [result |-> matchResult.result,
                                         ourScore |-> matchResult.ourScore,
                                         opponentScore |-> 0],
                        !.playerPerformances = merged]
           IN  IF hasPerformances THEN validateMatchResult(m3) ELSE m3

\* match.save() validates the playerPerformances of the document
SaveValidates(m) ==
  \A i \in DOMAIN m.playerPerformances : ValidMinutes(m.playerPerformances[i].minutesPlayed)

endMatch(matchResult, hasPerformances, playerPerformances) ==
  /\ Idle
  /\ IF match.status = "none"
     THEN /\ Respond("endMatch", 404)
          /\ UNCHANGED <<match, statistics>>
     ELSE IF match.status # "ongoing"
     THEN /\ Respond("endMatch", 400)
          /\ UNCHANGED <<match, statistics>>
     ELSE
       LET m2 == EndedMatch(match, now, matchResult, hasPerformances, playerPerformances)
           mat == createStatisticsFromMatch(statistics, m2, players)
       IN  IF match.type = "match" /\ matchResult.result \notin ValidResults
           THEN /\ Respond("endMatch", 400)
                /\ UNCHANGED <<match, statistics>>
           ELSE IF ~SaveValidates(m2)
           THEN /\ Respond("endMatch", 500)
                /\ UNCHANGED <<match, statistics>>
           ELSE /\ match' = m2
                /\ statistics' = mat.stats
                /\ Respond("endMatch", IF mat.ok THEN 200 ELSE 500)
  /\ UNCHANGED <<players, now, inflight, socket>>

(***************************************************************************)
(* endMatch and logInjury step by step: each handler is suspended at its   *)
(* awaits, between looking a Statistics record up and saving it, and the   *)
(* other handlers run in between.                                          *)
(***************************************************************************)
InsertStatistics_NoUniqueIndex(stats, doc) ==
  [stats |-> Append(stats, doc), ok |-> TRUE]

\* save() of a new Statistics document: the unique index on (playerId, matchId)
\* refuses a second record of the pair with a duplicate-key error
InsertStatistics(stats, doc) ==
  IF \E i \in DOMAIN stats : stats[i].playerId = doc.playerId
  THEN [stats |-> stats, ok |-> FALSE]
  ELSE [stats |-> Append(stats, doc), ok |-> TRUE]

\* endMatch up to and including match.save(); createStatisticsFromMatch is
\* entered with the saved document
endMatchSave(matchResult, hasPerformances, playerPerformances) ==
  /\ inflight.mat = NoTask
  /\ IF match.status = "none"
     THEN /\ Respond("endMatch", 404)
          /\ UNCHANGED <<match, inflight>>
     ELSE IF match.status # "ongoing"
     THEN /\ Respond("endMatch", 400)
          /\ UNCHANGED <<match, inflight>>
     ELSE
       LET m2 == EndedMatch(match, now, matchResult, hasPerformances, playerPerformances)
       IN  IF match.type = "match" /\ matchResult.result \notin ValidResults
           THEN /\ Respond("endMatch", 400)
                /\ UNCHANGED <<match, inflight>>
           ELSE IF ~SaveValidates(m2)
           THEN /\ Respond("endMatch", 500)
                /\ UNCHANGED <<match, inflight>>
           ELSE /\ match' = m2
                /\ inflight' = [inflight EXCEPT !.mat =
                                  [ step |-> "find",
                                    perfs |-> m2.playerPerformances,
                                    sheet |-> m2.teamSheet,
                                    found |-> 0 ]]
                /\ UNCHANGED res
  /\ UNCHANGED <<players, statistics, now, socket>>

\* createStatisticsFromMatch at Statistics.findOne: of the next performance,
\* then of the next team sheet player without a performance; with nothing
\* left it returns and endMatch answers
createStatisticsFind ==
  /\ inflight.mat.step = "find"
  /\ LET t == inflight.mat
     IN  IF t.perfs # <<>>
         THEN /\ inflight' = [inflight EXCEPT
                                !.mat.step = "save",
                                !.mat.found = FindStats(statistics, Head(t.perfs).playerId)]
              /\ UNCHANGED res
         ELSE IF t.sheet = <<>>
         THEN /\ inflight' = [inflight EXCEPT !.mat = NoTask]
              /\ Respond("endMatch", 200)
         ELSE IF \E i \in DOMAIN match.playerPerformances :
                   match.playerPerformances[i].playerId = Head(t.sheet)
         THEN /\ inflight' = [inflight EXCEPT !.mat.sheet = Tail(@)]
              /\ UNCHANGED res
         ELSE /\ inflight' = [inflight EXCEPT
                                !.mat.step = "save",
                                !.mat.found = FindStats(statistics, Head(t.sheet))]
              /\ UNCHANGED res
  /\ UNCHANGED <<players, match, statistics, now, socket>>

\* createStatisticsFromMatch at stats.save(): the record found is updated, or
\* a new one is inserted; a save that fails throws and endMatch answers 500
createStatisticsSave ==
  /\ inflight.mat.step = "save"
  /\ LET t == inflight.mat
         first == t.perfs # <<>>
         p == IF first THEN Head(t.perfs).playerId ELSE Head(t.sheet)
         minutes == IF first THEN Head(t.perfs).minutesPlayed
                    ELSE getPlayerPlaytime(match.playtime, p)
         goals == IF first THEN Head(t.perfs).goals ELSE 0
         position == players[p].position
         written ==
           IF t.found = 0
           THEN InsertStatistics(statistics, NewStatistics(p, minutes, goals, position))
           ELSE [ stats |-> IF first
                            THEN [statistics EXCEPT ![t.found].minutesPlayed = minutes,
                                                    ![t.found].goals = goals,
                                                    ![t.found].positionsPlayed = <<position>>]
                            ELSE [statistics EXCEPT ![t.found].minutesPlayed = minutes],
                  ok |-> TRUE ]
     IN  IF ~ValidMinutes(minutes) \/ ~written.ok
         THEN /\ inflight' = [inflight EXCEPT !.mat = NoTask]
              /\ Respond("endMatch", 500)
              /\ UNCHANGED statistics
         ELSE /\ statistics' = written.stats
              /\ inflight' = [inflight EXCEPT
                                !.mat.step = "find",
                                !.mat.found = 0,
                                !.mat.perfs = IF first THEN Tail(@) ELSE @,
                                !.mat.sheet = IF first THEN @ ELSE Tail(@)]
              /\ UNCHANGED res
  /\ UNCHANGED <<players, match, now, socket>>

Severities == {Absent, "major"}

\* an injury description is a string, here the sequence of its characters
Descriptions == {<<"k">>, <<" ", "a", " ", "b", " ">>}

RECURSIVE TrimStart(_)
TrimStart(s) == IF s # <<>> /\ Head(s) = " " THEN TrimStart(Tail(s)) ELSE s

RECURSIVE TrimEnd(_)
TrimEnd(s) ==
  IF s # <<>> /\ s[Len(s)] = " " THEN TrimEnd(SubSeq(s, 1, Len(s) - 1)) ELSE s

\* the setter of injuries: [{type: String, trim: true}]
Trim(s) == TrimEnd(TrimStart(s))

SeverityInputs == {Absent, "minor", "major", "severe", "MAJOR", "critical"}

\* severity.toLowerCase(), on the inputs above
ToLowerCase(severity) == IF severity = "MAJOR" THEN "major" ELSE severity

\* validateStatistics
validateStatistics(playerId, injuryDescription, severity) ==
  IF playerId = NoPlayer \/ injuryDescription = <<>> THEN 400
  ELSE IF severity # Absent /\ ToLowerCase(severity) \notin {"minor", "major", "severe"}
  THEN 400
  ELSE 200

\* injuryStatusMap[severity.toLowerCase()] || 'Minor Injury'
NewInjuryStatus(severity) ==
  IF ToLowerCase(severity) \in {"major", "severe"} THEN "Major Injury" ELSE "Minor Injury"

InjuredPlayer_StatusOnly(doc, severity) ==
  IF severity = Absent THEN doc
  ELSE [doc EXCEPT !.injuryStatus = NewInjuryStatus(severity)]

\* Player.findByIdAndUpdate(playerId, {injuryStatus, availability}) if (severity)
InjuredPlayer(doc, severity) ==
  IF severity = Absent THEN doc
  ELSE [doc EXCEPT !.injuryStatus = NewInjuryStatus(severity),
                   !.availability = IF NewInjuryStatus(severity) = "Major Injury"
                                    THEN FALSE ELSE @]

\* POST /api/statistics/log-injury, request r, up to Statistics.findOne
logInjuryFind(r, playerId) ==
  /\ inflight.inj[r] = NoTask
  /\ IF playerId \notin Players \/ match.status = "none"
     THEN /\ Respond("logInjury", 404)
          /\ inflight' = [inflight EXCEPT !.inj[r] = [step |-> "done"]]
     ELSE /\ inflight' = [inflight EXCEPT !.inj[r] =
                            [ step |-> "save",
                              playerId |-> playerId,
                              found |-> FindStats(statistics, playerId),
                              minutesPlayed |-> getPlayerPlaytime(match.playtime, playerId) ]]
          /\ UNCHANGED res
  /\ UNCHANGED <<players, match, statistics, now, socket>>

\* logInjury, request r, from stats.save() to its answer
logInjurySave(r, severity) ==
  /\ inflight.inj[r].step = "save"
  /\ LET t == inflight.inj[r]
         p == t.playerId
         written ==
           IF t.found # 0
           THEN [ stats |-> [statistics EXCEPT ![t.found].injuries =
                                                 Append(@, Trim(<<"k">>))],
                  ok |-> TRUE ]
           ELSE IF ~ValidMinutes(t.minutesPlayed)
           THEN [stats |-> statistics, ok |-> FALSE]
           ELSE InsertStatistics(statistics,
                  [NewStatistics(p, t.minutesPlayed, 0, players[p].position)
                     EXCEPT !.injuries = <<Trim(<<"k">>)>>])
     IN  IF ~written.ok
         THEN /\ Respond("logInjury", 500)
              /\ UNCHANGED <<statistics, players>>
         ELSE /\ statistics' = written.stats
              /\ players' = [players EXCEPT ![p] = InjuredPlayer(@, severity)]
              /\ Respond("logInjury", 201)
  /\ inflight' = [inflight EXCEPT !.inj[r] = [step |-> "done"]]
  /\ UNCHANGED <<match, now, socket>>

\* POST /api/statistics/log-injury, one request handled alone
logInjury(playerId, injuryDescription, severity) ==
  /\ Idle
  /\ IF validateStatistics(playerId, injuryDescription, severity) # 200
     THEN /\ Respond("logInjury", 400)
          /\ UNCHANGED <<statistics, players>>
     ELSE IF playerId \notin Players \/ match.status = "none"
     THEN /\ Respond("logInjury", 404)
          /\ UNCHANGED <<statistics, players>>
     ELSE
       LET found == FindStats(statistics, playerId)
           minutesPlayed == getPlayerPlaytime(match.playtime, playerId)
           written ==
             IF found # 0
             THEN [ stats |-> [statistics EXCEPT ![found].injuries =
                                                   Append(@, Trim(injuryDescription))],
                    ok |-> TRUE ]
             ELSE IF ~ValidMinutes(minutesPlayed)
             THEN [stats |-> statistics, ok |-> FALSE]
             ELSE InsertStatistics(statistics,
                    [NewStatistics(playerId, minutesPlayed, 0, players[playerId].position)
                       EXCEPT !.injuries = <<Trim(injuryDescription)>>])
       IN  /\ found # 0 => Len(statistics[found].injuries) < MaxInjuries
           /\ IF ~written.ok
              THEN /\ Respond("logInjury", 500)
                   /\ UNCHANGED <<statistics, players>>
              ELSE /\ statistics' = written.stats
                   /\ players' = [players EXCEPT ![playerId] = InjuredPlayer(@, severity)]
                   /\ Respond("logInjury", 201)
  /\ UNCHANGED <<match, now, inflight, socket>>

(***************************************************************************)
(* GET /api/matches/:id/playtime                                           *)
(***************************************************************************)
\* the ledger of the document in memory after the forEach of getPlaytimeStats
\* at instant at; for a match that is not ongoing, the ledger as read
PlaytimeStats(m, at) ==
  IF m.status = "ongoing"
  THEN FinalPlaytime(m.playtime, m.teamSheet, m.substitutions, m.createdAt, at)
  ELSE m.playtime

PersistedAfterStats_Saved(m, computed) == [m EXCEPT !.playtime = computed]

\* the handler answers from the document in memory and never calls save()
PersistedAfterStats(m, computed) == m

getPlaytimeStats ==
  /\ Idle
  /\ IF match.status = "none"
     THEN /\ Respond("getPlaytimeStats", 404)
          /\ UNCHANGED match
     ELSE /\ match' = PersistedAfterStats(match, PlaytimeStats(match, now))
          /\ Respond("getPlaytimeStats", 200)
  /\ UNCHANGED <<players, statistics, now, inflight, socket>>

(***************************************************************************)
(* POST /api/matches/:id/substitute as the steps between its awaits, for   *)
(* requests that overlap.  The match document a request works on is the    *)
(* one its Match.findById returned; match.save() persists that document.   *)
(***************************************************************************)
RaceIds == {0, 1, 2, 3, 4}

SaveConflict_VersionCheck(read, persisted) == read # persisted

\* match.save() of a document read before another request saved the same
\* match: nothing in the handler or the schema compares versions or locks
SaveConflict(read, persisted) == FALSE

\* makeSubstitution, request r, from Match.findById through the checks
makeSubstitutionFind(r, playerIn, playerOut) ==
  /\ inflight.sub[r] = NoTask
  /\ IF validateSubstitution(match, playerIn, playerOut) # 200
     THEN /\ Respond("makeSubstitution", validateSubstitution(match, playerIn, playerOut))
          /\ inflight' = [inflight EXCEPT !.sub[r] =
                            [ step |-> "done",
                              code |-> validateSubstitution(match, playerIn, playerOut) ]]
     ELSE /\ inflight' = [inflight EXCEPT !.sub[r] =
                            [ step |-> "save",
                              playerIn |-> playerIn,
                              playerOut |-> playerOut,
                              read |-> match ]]
          /\ UNCHANGED res
  /\ UNCHANGED <<players, match, statistics, now, socket>>

\* makeSubstitution, request r, from the ledger update to its answer
makeSubstitutionSave(r) ==
  /\ inflight.sub[r].step = "save"
  /\ LET t == inflight.sub[r]
         saved == Substituted(t.read, t.playerIn, t.playerOut,
                              SubstitutionTime(NoTime, now), Absent)
     IN  IF SaveConflict(t.read, match)
         THEN /\ Respond("makeSubstitution", 500)
              /\ inflight' = [inflight EXCEPT !.sub[r] = [t EXCEPT !.step = "done"]
                                                          @@ [code |-> 500]]
              /\ UNCHANGED <<match, socket>>
         ELSE /\ match' = saved
              /\ socket' = [socket EXCEPT !.emitted = Emitted(socket.mode, saved)]
              /\ Respond("makeSubstitution", 200)
              /\ inflight' = [inflight EXCEPT !.sub[r] = [t EXCEPT !.step = "done"]
                                                          @@ [code |-> 200]]
  /\ UNCHANGED <<players, statistics, now>>

(***************************************************************************)
(* PUT /api/players/:id (availability only)                                *)
(***************************************************************************)
updatePlayer(p, availability) ==
  /\ Idle
  /\ IF p \notin Players
     THEN /\ Respond("updatePlayer", 404)
          /\ UNCHANGED players
     ELSE /\ players' = [players EXCEPT ![p].availability = availability]
          /\ Respond("updatePlayer", 200)
  /\ UNCHANGED <<match, statistics, now, inflight, socket>>

(***************************************************************************)
(* The clock.                                                              *)
(***************************************************************************)
Tick ==
  /\ Idle
  /\ match.status \in {"scheduled", "ongoing", "cancelled"}
  /\ now < MaxTime
  /\ now' = now + 1
  /\ UNCHANGED <<players, match, statistics, res, inflight, socket>>

\* the client takes the response; the next request can be handled
Reply ==
  /\ ~Idle
  /\ res' = NoResponse
  /\ UNCHANGED <<players, match, statistics, now, inflight, socket>>

Init ==
  /\ players = [p \in Players |-> playerSchema(p)]
  /\ match = NoMatch
  /\ statistics = <<>>
  /\ now = 0
  /\ res = NoResponse
  /\ inflight = NoRequests
  /\ socket = NoSocket

Next ==
  \/ \E type \in Types, sheet \in SheetInputs : createSchedule(type, sheet)
  \/ \E type \in Types, sheet \in SheetInputs : startMatch(type, sheet)
  \/ startExistingMatch
  \/ \E hasSheet \in BOOLEAN, sheet \in UpdateSheets, status \in StatusInputs :
       /\ hasSheet \/ sheet = <<2>>
       /\ updateSchedule(match.type, hasSheet, sheet, status, FALSE, <<>>)
  \/ cancelSchedule
  \/ \E formation \in Formations, prioritizeRest \in BOOLEAN :
       generateTeamSheet(formation, prioritizeRest, <<>>)
  \/ \E playerIn \in InputIds, playerOut \in InputIds, time \in TimeInputs :
       makeSubstitution(playerIn, playerOut, time, Absent, Absent, TRUE)
  \/ \E result \in Results, ourScore \in Scores, hasPerformances \in BOOLEAN,
        playerPerformances \in PerfInputs :
       /\ hasPerformances \/ playerPerformances = <<>>
       /\ endMatch([result |-> result, ourScore |-> ourScore],
                   hasPerformances, playerPerformances)
  \/ \E p \in {0, 2}, availability \in BOOLEAN : updatePlayer(p, availability)
  \/ Tick
  \/ Reply

Spec == Init /\ [][Next]_vars

(***************************************************************************)
(* The team generator on its own: any roster of the Player collection, a   *)
(* scheduled match, and requests to generate its team sheet for any        *)
(* formation, rotation mode and recent playtime.                           *)
(***************************************************************************)
\* players 1..3 take any position, the others are as in the roster
GenPositions ==
  { [p \in Players |-> IF p \in DOMAIN g THEN g[p] ELSE RosterPosition(p)] :
    g \in [1..3 -> Positions] }

\* who lists every outfield position as preferred
GenVersatile == SUBSET {1}
Outfield == {"Defender", "Midfielder", "Forward"}

GenRosters ==
  { [p \in Players |->
       [ position |-> f[p],
         preferredPositions |-> IF p \in v THEN {f[p]} \cup Outfield ELSE {f[p]},
         injuryStatus |-> "Healthy",
         availability |-> (p <= TeamSize \/ twelve) ]] :
    f \in GenPositions, v \in GenVersatile, twelve \in BOOLEAN }

GenFormations == {<<4, 4, 2>>, <<5, 4, 1>>, <<3, 3, 2>>}
RecentMinutes == {0, 90}
GenRecent == {<<>>} \cup [1..2 -> RecentMinutes]

InitGen ==
  /\ players \in GenRosters
  /\ match = matchSchema("match", <<>>, "scheduled", 0)
  /\ statistics = <<>>
  /\ now = 0
  /\ res = NoResponse
  /\ inflight = NoRequests
  /\ socket = NoSocket

NextGen ==
  \/ \E formation \in GenFormations, prioritizeRest \in BOOLEAN, recent \in GenRecent :
       generateTeamSheet(formation, prioritizeRest, recent)
  \/ Reply

SpecGen == InitGen /\ [][NextGen]_vars

(***************************************************************************)
(* Substitutions with reasons and injury data, and updates that carry a    *)
(* substitutions array, on a match started with two players; the clock     *)
(* stands still.                                                           *)
(***************************************************************************)
NextSub ==
  \/ \E type \in Types : startMatch(type, <<1, 2>>)
  \/ \E playerIn \in InputIds, playerOut \in InputIds, reason \in Reasons,
        injuryStatus \in {Absent, "Major Injury"}, injuryOk \in BOOLEAN :
       \* injury data only matter with a reason that mentions injury, and the
       \* outcome of the player update only when there is one
       /\ injuryStatus = Absent \/ (reason # Absent /\ MentionsInjury(reason))
       /\ injuryOk \/ injuryStatus # Absent
       /\ makeSubstitution(playerIn, playerOut, NoTime, reason, injuryStatus, injuryOk)
  \/ \E substitutions \in UpdateSubstitutions :
       updateSchedule(match.type, FALSE, <<>>, Absent, TRUE, substitutions)
  \/ Reply

SpecSub == Init /\ [][NextSub]_vars

(***************************************************************************)
(* Concurrent requests on an ongoing match: endMatch and logInjury         *)
(* interleaved at their awaits.                                            *)
(***************************************************************************)
InitConc ==
  /\ players = [p \in Players |-> playerSchema(p)]
  /\ match \in { [matchSchema(type, <<1, 2>>, "ongoing", 0)
                    EXCEPT !.playtime = InitPlaytime(<<>>, <<1, 2>>)] : type \in Types }
  /\ statistics = <<>>
  /\ now = 0
  /\ res = NoResponse
  /\ inflight = NoRequests
  /\ socket = NoSocket

NextConc ==
  \/ \E result \in Results, ourScore \in Scores, hasPerformances \in BOOLEAN,
        playerPerformances \in PerfInputs :
       /\ hasPerformances \/ playerPerformances = <<>>
       /\ endMatchSave([result |-> result, ourScore |-> ourScore],
                       hasPerformances, playerPerformances)
  \/ createStatisticsFind
  \/ createStatisticsSave
  \/ \E r \in 1..MaxRequests, playerId \in InputIds : logInjuryFind(r, playerId)
  \/ \E r \in 1..MaxRequests, severity \in Severities : logInjurySave(r, severity)

SpecConc == InitConc /\ [][NextConc]_vars

(***************************************************************************)
(* Properties.                                                             *)
(***************************************************************************)
OnSheet(sheet, p) == \E i \in DOMAIN sheet : sheet[i] = p
GoalsOf(perfs) == SeqSum([i \in DOMAIN perfs |-> perfs[i].goals])
Ledger(m, p) == IF p \in DOMAIN m.playtime THEN m.playtime[p] ELSE 0
Succeeded(op) == res.op = op /\ res.code \in {200, 201}
RecordsOf(p) == {i \in DOMAIN statistics : statistics[i].playerId = p}

\* C1: every completed match of type match has matchResult.ourScore equal to
\* the sum of the goals of its playerPerformances
C1_OurScoreIsSumOfGoals ==
  (match.type = "match" /\ match.status = "completed")
    => match.matchResult.ourScore = GoalsOf(match.playerPerformances)

\* C2: right after a successful endMatch every player of the team sheet has
\* exactly one Statistics record of the match
C2_OneRecordPerTeamSheetPlayer ==
  Succeeded("endMatch")
    => \A p \in Range(match.teamSheet) : Cardinality(RecordsOf(p)) = 1

\* a successful endMatch of a team sheet with a player who has a performance
\* and a player who has none
C2_Witness ==
  /\ Succeeded("endMatch")
  /\ \E p \in Range(match.teamSheet), q \in Range(match.teamSheet) :
       /\ \E i \in DOMAIN match.playerPerformances : match.playerPerformances[i].playerId = p
       /\ \A i \in DOMAIN match.playerPerformances : match.playerPerformances[i].playerId # q

\* C3: makeSubstitution answers with an error when the match is not ongoing,
\* playerOut is not on the team sheet or playerIn is on it, and a
\* makeSubstitution that answers with an error leaves the team sheet, the
\* substitutions log and the ledger as they were
C3_RejectedSubstitutionChangesNothing ==
  [][res'.op = "makeSubstitution" =>
     \A playerIn \in InputIds, playerOut \in InputIds, time \in TimeInputs :
       makeSubstitution(playerIn, playerOut, time, Absent, Absent, TRUE) =>
         /\ ( \/ match.status # "ongoing"
              \/ ~OnSheet(match.teamSheet, playerOut)
              \/ OnSheet(match.teamSheet, playerIn) ) => res'.code >= 400
         /\ res'.code >= 400 =>
              /\ match'.teamSheet = match.teamSheet
              /\ match'.substitutions = match.substitutions
              /\ match'.playtime = match.playtime]_vars

\* a substitution rejected because playerIn is on the field of an ongoing match
C3_Witness ==
  /\ res = [op |-> "makeSubstitution", code |-> 400]
  /\ match.status = "ongoing"
  /\ Len(match.teamSheet) >= 2

\* C4: a successful makeSubstitution keeps the length of the team sheet, puts
\* playerIn where playerOut was, leaves no playerOut on the team sheet and
\* keeps every other slot
C4_SwapKeepsSlots ==
  [][res'.op = "makeSubstitution" =>
     \A playerIn \in InputIds, playerOut \in InputIds, time \in TimeInputs :
       (makeSubstitution(playerIn, playerOut, time, Absent, Absent, TRUE) /\ res'.code = 200) =>
         LET slot == CHOOSE i \in DOMAIN match.teamSheet :
                       /\ match.teamSheet[i] = playerOut
                       /\ \A j \in 1..(i-1) : match.teamSheet[j] # playerOut
         IN  /\ Len(match'.teamSheet) = Len(match.teamSheet)
             /\ match'.teamSheet[slot] = playerIn
             /\ ~OnSheet(match'.teamSheet, playerOut)
             /\ \A j \in DOMAIN match.teamSheet :
                  j # slot => match'.teamSheet[j] = match.teamSheet[j]]_vars

\* C5: for formation 4-4-2 and at least 11 eligible players with a goalkeeper
\* among them, the generated team has 11 entries, exactly one of them a
\* goalkeeper by primary position
C5_ElevenWithOneGoalkeeper ==
  [][res'.op = "generateTeamSheet" =>
     \A prioritizeRest \in BOOLEAN, recent \in GenRecent :
       ( /\ generateTeamSheet(<<4, 4, 2>>, prioritizeRest, recent)
         /\ res'.code = 200
         /\ \E p \in Players : /\ players[p].availability
                               /\ players[p].position = "Goalkeeper" ) =>
         /\ Len(match'.teamSheet) = 11
         /\ Cardinality({i \in DOMAIN match'.teamSheet :
                           players[match'.teamSheet[i]].position = "Goalkeeper"}) = 1]_vars

\* C6: a successful makeSubstitution at T adds floor((T - createdAt) / minute)
\* to the ledger entry of playerOut, leaves playerIn with an entry of its
\* previous value (0 without one) and changes no other entry
C6_SubstitutionCreditsPlayerOut ==
  [][res'.op = "makeSubstitution" =>
     \A playerIn \in InputIds, playerOut \in InputIds, time \in TimeInputs :
       (makeSubstitution(playerIn, playerOut, time, Absent, Absent, TRUE) /\ res'.code = 200) =>
         LET T == IF time = NoTime THEN now ELSE time
         IN  /\ DOMAIN match'.playtime = DOMAIN match.playtime \cup {playerIn, playerOut}
             /\ match'.playtime[playerOut] =
                  Ledger(match, playerOut) + ((T - match.createdAt) \div Minute)
             /\ match'.playtime[playerIn] = Ledger(match, playerIn)
             /\ \A q \in DOMAIN match.playtime \ {playerIn, playerOut} :
                  match'.playtime[q] = match.playtime[q]]_vars

\* a substitution a minute after the creation of the match, of a player who
\* already had a minute: the ledger holds two
C6_Witness ==
  /\ Succeeded("makeSubstitution")
  /\ Len(match.substitutions) = 2
  /\ LET last == match.substitutions[Len(match.substitutions)]
     IN  /\ last.time = 2
         /\ match.playtime[last.playerOut] = 2

\* C7: right after endMatch has materialized the statistics, materializing
\* them again from the same match leaves the Statistics collection as it is
C7_RematerializationChangesNothing ==
  (res.op = "endMatch" /\ res.code \in {200, 500} /\ match.status = "completed")
    => createStatisticsFromMatch(statistics, match, players).stats = statistics

\* a successful endMatch that wrote records for performances and for team
\* sheet players without one
C7_Witness ==
  /\ Succeeded("endMatch")
  /\ Len(statistics) >= 2
  /\ \E i \in DOMAIN statistics :
       /\ OnSheet(match.teamSheet, statistics[i].playerId)
       /\ \A k \in DOMAIN match.playerPerformances :
            match.playerPerformances[k].playerId # statistics[i].playerId

\* C8: every change of the status of the match is its creation or one of
\* scheduled -> ongoing, ongoing -> completed, scheduled -> cancelled
C8_StatusTransitions ==
  [][match'.status # match.status =>
       <<match.status, match'.status>> \in
         { <<"none", "scheduled">>, <<"none", "ongoing">>, <<"scheduled", "ongoing">>,
           <<"ongoing", "completed">>, <<"scheduled", "cancelled">> }]_vars

\* C9: a completed match is never changed again, and every lifecycle
\* operation on it answers with an error
C9_CompletedIsFrozen ==
  [][match.status = "completed" =>
       /\ match' = match
       /\ res'.op \in {"updateSchedule", "cancelSchedule", "generateTeamSheet",
                       "startExistingMatch", "makeSubstitution", "endMatch"}
            => res'.code >= 400]_vars

\* a completed match with performances whose update was just rejected
C9_Witness ==
  /\ match.status = "completed"
  /\ res = [op |-> "updateSchedule", code |-> 400]
  /\ Len(match.playerPerformances) > 0

\* C10: right after a successful start the match is ongoing and the ledger
\* has an entry of value 0 for every player of the team sheet
C10_StartInitializesLedger ==
  (Succeeded("startMatch") \/ Succeeded("startExistingMatch"))
    => /\ match.status = "ongoing"
       /\ \A p \in Range(match.teamSheet) :
            p \in DOMAIN match.playtime /\ match.playtime[p] = 0

C12_LedgerNeverDecreases ==
  [][(match.status = "ongoing" /\ res'.op \in {"makeSubstitution", "endMatch"}) =>
       \A p \in Players : Ledger(match', p) >= Ledger(match, p)]_vars

\* C13: however endMatch's materialization and logInjury requests interleave,
\* no player has two Statistics records of the match
C13_OneRecordPerPair ==
  \A p \in Players : Cardinality(RecordsOf(p)) <= 1

\* the materialization and a logInjury request have both looked up the same
\* player, found no record, and neither has saved yet
C13_Witness ==
  /\ inflight.mat.step = "save"
  /\ inflight.mat.found = 0
  /\ \E r \in 1..MaxRequests :
       /\ inflight.inj[r].step = "save"
       /\ inflight.inj[r].found = 0
       /\ inflight.inj[r].playerId =
            (IF inflight.mat.perfs # <<>> THEN Head(inflight.mat.perfs).playerId
             ELSE Head(inflight.mat.sheet))
  /\ RecordsOf(inflight.mat.sheet[1]) = {}

\* C14: right after a successful endMatch every player who was on the team
\* sheet while the match was ongoing, those substituted out included, has
\* exactly one Statistics record
C14_EveryParticipantHasOneRecord ==
  Succeeded("endMatch") =>
    \A p \in Range(match.teamSheet)
             \cup {match.substitutions[i].playerOut : i \in DOMAIN match.substitutions} :
      Cardinality(RecordsOf(p)) = 1

\* C15: a successful endMatch at instant N adds, for each player of the team
\* sheet, floor((N - s) / minute) to the ledger entry of the player, s being
\* the time of the latest substitution that brought the player on, or the
\* creation time of the match; the other ledger entries stay as they are
C15_EndMatchCreditsTeamSheet ==
  [][(res'.op = "endMatch" /\ res'.code = 200) =>
       /\ \A p \in Range(match.teamSheet) :
            LET mine == {match.substitutions[i].time :
                           i \in {k \in DOMAIN match.substitutions :
                                    match.substitutions[k].playerIn = p}}
                s == IF mine = {} THEN match.createdAt
                     ELSE CHOOSE t \in mine : \A u \in mine : u <= t
            IN  /\ p \in DOMAIN match'.playtime
                /\ match'.playtime[p] = Ledger(match, p) + ((now - s) \div Minute)
       /\ \A q \in DOMAIN match.playtime \ Range(match.teamSheet) :
            q \in DOMAIN match'.playtime /\ match'.playtime[q] = match.playtime[q]]_vars

\* C16: the substitutions log only grows at its end: every step keeps the
\* records the log had, in their places, and a successful makeSubstitution
\* appends exactly the record {playerIn, playerOut, time, reason}, the reason
\* being "Tactical substitution" when none was given
C16_SubstitutionsAppendOnly ==
  [][/\ match.status # "none" =>
          /\ Len(match'.substitutions) >= Len(match.substitutions)
          /\ \A i \in DOMAIN match.substitutions :
               match'.substitutions[i] = match.substitutions[i]
     /\ (res'.op = "makeSubstitution" /\ res'.code = 200) =>
          \A playerIn \in InputIds, playerOut \in InputIds, reason \in Reasons,
             injuryStatus \in InjuryInputs, injuryOk \in BOOLEAN :
            makeSubstitution(playerIn, playerOut, NoTime, reason, injuryStatus, injuryOk) =>
              match'.substitutions =
                Append(match.substitutions,
                       [ playerIn |-> playerIn, playerOut |-> playerOut, time |-> now,
                         reason |-> IF reason = Absent THEN "Tactical substitution"
                                    ELSE reason ])]_vars

\* C20: a makeSubstitution with a reason that mentions injury and an injury
\* status, whose update of the outgoing player fails, succeeds all the same:
\* the team sheet swap, the ledger update and the log record are persisted as
\* for a substitution without injury data, and the player is left as he was
C20_InjuryUpdateFailureKeepsSubstitution ==
  [][res'.op = "makeSubstitution" =>
     \A playerIn \in InputIds, playerOut \in InputIds,
        reason \in {r \in Reasons \ {Absent} : MentionsInjury(r)},
        injuryStatus \in InjuryInputs \ {Absent} :
       ( /\ validateSubstitution(match, playerIn, playerOut) = 200
         /\ ~ReasonTooLong(reason)
         /\ makeSubstitution(playerIn, playerOut, NoTime, reason, injuryStatus, FALSE) ) =>
         /\ res'.code = 200
         /\ players' = players
         /\ match'.teamSheet =
              [match.teamSheet EXCEPT ![IndexOf(match.teamSheet, playerOut)] = playerIn]
         /\ match'.playtime[playerOut] =
              Ledger(match, playerOut) + ((now - match.createdAt) \div Minute)
         /\ match'.playtime[playerIn] = Ledger(match, playerIn)
         /\ match'.substitutions =
              Append(match.substitutions,
                     [ playerIn |-> playerIn, playerOut |-> playerOut, time |-> now,
                       reason |-> reason ])]_vars

\* a substitution for injury has succeeded and the outgoing player is still
\* recorded as healthy
C20_Witness ==
  /\ Succeeded("makeSubstitution")
  /\ LET last == match.substitutions[Len(match.substitutions)]
     IN  /\ last.reason = "Knee Injury"
         /\ players[last.playerOut].injuryStatus = "Healthy"
         /\ OnSheet(match.teamSheet, last.playerIn)

\* C17: after endMatch has merged a submitted playerPerformances list, which
\* may name a player several times, the match has at most one entry per
\* player, and the entry of each player named carries the goals of the last
\* submitted item that names the player
C17_MergeKeepsOneEntryPerPlayer ==
  [][(res'.op = "endMatch" /\ match' # match) =>
     \A result \in Results, ourScore \in Scores, playerPerformances \in PerfInputs :
       endMatch([result |-> result, ourScore |-> ourScore], TRUE, playerPerformances) =>
         /\ \A i \in DOMAIN match'.playerPerformances, j \in DOMAIN match'.playerPerformances :
              match'.playerPerformances[i].playerId = match'.playerPerformances[j].playerId
                => i = j
         /\ \A k \in DOMAIN playerPerformances :
              ( /\ playerPerformances[k].playerId # NoPlayer
                /\ \A l \in (k+1)..Len(playerPerformances) :
                     playerPerformances[l].playerId # playerPerformances[k].playerId )
              => \E i \in DOMAIN match'.playerPerformances :
                   /\ match'.playerPerformances[i].playerId = playerPerformances[k].playerId
                   /\ match'.playerPerformances[i].goals = playerPerformances[k].goals]_vars

\* a successful endMatch whose list named player 1 twice, with 1 goal and
\* then with 2: the match has the one entry, with 2 goals
C17_Witness ==
  /\ Succeeded("endMatch")
  /\ Len(match.playerPerformances) = 1
  /\ match.playerPerformances[1].playerId = 1
  /\ match.playerPerformances[1].goals = 2

C19_FailedMaterializationKeepsCompleted ==
  [][(res'.op = "endMatch" /\ res'.code = 500) =>
     \A result \in Results, ourScore \in Scores, hasPerformances \in BOOLEAN,
        playerPerformances \in PerfInputs :
       LET ended == EndedMatch(match, now, [result |-> result, ourScore |-> ourScore],
                               hasPerformances, playerPerformances)
           NoPerformance(p) == \A i \in DOMAIN ended.playerPerformances :
                                 ended.playerPerformances[i].playerId # p
       IN  ( /\ endMatch([result |-> result, ourScore |-> ourScore],
                         hasPerformances, playerPerformances)
             /\ SaveValidates(ended) ) =>
             /\ match' = ended
             /\ match'.status = "completed"
             /\ \A i \in DOMAIN statistics : statistics'[i] = statistics[i]
             /\ \A i \in DOMAIN ended.playerPerformances :
                  \E k \in DOMAIN statistics' :
                    /\ statistics'[k].playerId = ended.playerPerformances[i].playerId
                    /\ statistics'[k].goals = ended.playerPerformances[i].goals
             /\ \A k \in DOMAIN ended.teamSheet :
                  ( /\ NoPerformance(ended.teamSheet[k])
                    /\ \A j \in 1..k : NoPerformance(ended.teamSheet[j])
                                         => Ledger(ended, ended.teamSheet[j]) >= 0 )
                  => \E n \in DOMAIN statistics' :
                       /\ statistics'[n].playerId = ended.teamSheet[k]
                       /\ statistics'[n].minutesPlayed = Ledger(ended, ended.teamSheet[k])]_vars

\* endMatch has answered with an error after the match was saved as completed
\* and a Statistics record was written
C19_Witness ==
  /\ res = [op |-> "endMatch", code |-> 500]
  /\ match.status = "completed"
  /\ Len(statistics) >= 1

\* C21: a makeSubstitution that answers with an error, a failure of
\* match.save() included, leaves the team sheet, the substitutions log and the
\* ledger of the match and the injuryStatus of the outgoing player as they were
C21_FailedSubstitutionChangesNothing ==
  [][(res'.op = "makeSubstitution" /\ res'.code >= 400) =>
       /\ match'.teamSheet = match.teamSheet
       /\ match'.substitutions = match.substitutions
       /\ match'.playtime = match.playtime
       /\ \A p \in Players : players'[p].injuryStatus = players[p].injuryStatus]_vars

(***************************************************************************)
(* Substitutions with the socket collaborator absent, present and throwing *)
(* on emit; the submitted times put the player going off at 20 and 21      *)
(* minutes.                                                                *)
(***************************************************************************)
NotifyTimes == {NoTime, 20 * Minute, 21 * Minute}

InitNotify ==
  /\ players = [p \in Players |-> playerSchema(p)]
  /\ match = NoMatch
  /\ statistics = <<>>
  /\ now = 0
  /\ res = NoResponse
  /\ inflight = NoRequests
  /\ socket \in [mode : SocketModes, emitted : {<<>>}]

NextNotify ==
  \/ \E type \in Types : startMatch(type, <<1, 2>>)
  \/ \E playerIn \in InputIds, playerOut \in InputIds, time \in NotifyTimes :
       makeSubstitution(playerIn, playerOut, time, Absent, Absent, TRUE)
  \/ Reply

SpecNotify == InitNotify /\ [][NextNotify]_vars

AlertEmitted(s) ==
  \E i \in DOMAIN s.emitted : s.emitted[i].event = "playtime_alert"

\* C22: whatever the socket collaborator does (absent, present, throwing on
\* emit), makeSubstitution answers and persists what the request and the match
\* alone determine: a valid substitution answers 200 and saves the substituted
\* match, a rejected one answers its error and saves nothing.  A playtime
\* alert is emitted only when the saved ledger has at least two entries and
\* two of them are more than 20 minutes apart.
C22_NotificationsNeverChangeOutcome ==
  [][res'.op = "makeSubstitution" =>
       /\ \E playerIn \in InputIds, playerOut \in InputIds, time \in NotifyTimes :
            IF validateSubstitution(match, playerIn, playerOut) = 200
            THEN /\ res'.code = 200
                 /\ match' = Substituted(match, playerIn, playerOut,
                                         SubstitutionTime(time, now), Absent)
            ELSE /\ res'.code = validateSubstitution(match, playerIn, playerOut)
                 /\ match' = match
       /\ res'.code = 200 => match' # match
       /\ AlertEmitted(socket') =>
            /\ socket.mode = "present"
            /\ res'.code = 200
            /\ Cardinality(DOMAIN match'.playtime) >= 2
            /\ \E p \in DOMAIN match'.playtime, q \in DOMAIN match'.playtime :
                 match'.playtime[p] - match'.playtime[q] > 20]_vars

\* a substitution that emitted the playtime alert
C22_Witness ==
  /\ res = [op |-> "makeSubstitution", code |-> 200]
  /\ socket.mode = "present"
  /\ AlertEmitted(socket)

\* C23: with at least 11 eligible players, whatever the formation, the team
\* generateOptimalTeam returns (selections by position, then the fill from the
\* players not yet selected) has exactly 11 entries
C23_GeneratedTeamHasEleven ==
  [][(res'.op = "generateTeamSheet" /\ res'.code = 200) =>
       Len(match'.teamSheet) = TeamSize]_vars

(***************************************************************************)
(* Overlapping substitutions on one ongoing match.                         *)
(***************************************************************************)
NextRace ==
  \/ \E r \in 1..MaxRequests, playerIn \in RaceIds, playerOut \in RaceIds :
       makeSubstitutionFind(r, playerIn, playerOut)
  \/ \E r \in 1..MaxRequests : makeSubstitutionSave(r)
  \/ Tick

SpecRace == InitConc /\ [][NextRace]_vars

\* request r was answered 200 after reading the match before the other
\* request saved
ReadBeforeSaves(r) ==
  /\ inflight.sub[r].step = "done"
  /\ inflight.sub[r].code = 200
  /\ inflight.sub[r].read.substitutions = <<>>

C25_UpdateRejectsOngoingAndCompleted ==
  [][(res'.op = "updateSchedule" /\ match.status \in {"ongoing", "completed"}) =>
       /\ res'.code = 400
       /\ match' = match]_vars

(***************************************************************************)
(* Injury logging on an ongoing match, before and after a substitution.    *)
(***************************************************************************)
NextInjury ==
  \/ \E playerId \in {0, 1, 3}, injuryDescription \in Descriptions \cup {<<>>},
        severity \in SeverityInputs :
       logInjury(playerId, injuryDescription, severity)
  \/ makeSubstitution(3, 1, 3 * Minute, Absent, Absent, TRUE)
  \/ Reply

SpecInjury == InitConc /\ [][NextInjury]_vars

\* the effect the claim describes for a logInjury answered 201, with text as
\* the entry added to the injuries list
LogInjuryEffect(playerId, severity, text) ==
  LET before == FindStats(statistics, playerId)
      after == FindStats(statistics', playerId)
  IN  /\ Cardinality({i \in DOMAIN statistics' : statistics'[i].playerId = playerId}) = 1
      /\ statistics'[after].injuries =
           Append(IF before = 0 THEN <<>> ELSE statistics[before].injuries, text)
      /\ before # 0 =>
           statistics' = [statistics EXCEPT ![before].injuries = statistics'[after].injuries]
      /\ \A i \in DOMAIN statistics : statistics'[i].playerId = statistics[i].playerId
      /\ \A q \in Players \ {playerId} : players'[q] = players[q]
      /\ severity = Absent => players'[playerId] = players[playerId]
      /\ severity = "minor" =>
           players'[playerId] = [players[playerId] EXCEPT !.injuryStatus = "Minor Injury"]
      /\ severity \in {"major", "severe", "MAJOR"} =>
           players'[playerId] = [players[playerId] EXCEPT !.injuryStatus = "Major Injury",
                                                          !.availability = FALSE]

\* C26 as stated: a successful logInjury leaves one record of the pair whose
\* injuries list is the previous list with the submitted description appended,
\* and updates the player by severity
C26_LogInjuryAppendsDescription ==
  [][res'.op = "logInjury" =>
       \A playerId \in {0, 1, 3}, injuryDescription \in Descriptions,
          severity \in SeverityInputs :
         (logInjury(playerId, injuryDescription, severity) /\ res'.code = 201) =>
           LogInjuryEffect(playerId, severity, injuryDescription)]_vars

\* C26: a successful logInjury leaves exactly one record of (playerId, matchId)
\* whose injuries list is the previous list (empty for a new record) with the
\* trimmed description appended, the other fields and records unchanged; the
\* player is unchanged without severity, gets Minor Injury with minor, and
\* Major Injury with availability false with major or severe
C26_LogInjuryAppendsTrimmedDescription ==
  [][res'.op = "logInjury" =>
       \A playerId \in {0, 1, 3}, injuryDescription \in Descriptions,
          severity \in SeverityInputs :
         (logInjury(playerId, injuryDescription, severity) /\ res'.code = 201) =>
           LogInjuryEffect(playerId, severity, Trim(injuryDescription))]_vars

\* a second injury of a player logged with severity severe on a record that
\* existed, the description submitted with blanks around it
C26_Witness ==
  /\ res = [op |-> "logInjury", code |-> 201]
  /\ \E i \in DOMAIN statistics :
       /\ statistics[i].playerId = 1
       /\ statistics[i].injuries = <<<<"k">>, <<"a", " ", "b">>>>
       /\ statistics[i].minutesPlayed = 3
  /\ players[1].injuryStatus = "Major Injury"
  /\ ~players[1].availability

(***************************************************************************)
(* Playtime queries between the substitutions and the end of a match.      *)
(***************************************************************************)
NextStats ==
  \/ \E type \in Types : startMatch(type, <<1, 2>>)
  \/ \E playerIn \in {1, 3}, playerOut \in {1, 2, 3} :
       makeSubstitution(playerIn, playerOut, NoTime, Absent, Absent, TRUE)
  \/ getPlaytimeStats
  \/ endMatch([result |-> "win", ourScore |-> 5], FALSE, <<>>)
  \/ Tick
  \/ Reply

SpecStats == Init /\ [][NextStats]_vars

\* C27: getPlaytimeStats is a pure read: it leaves the persisted match (ledger,
\* team sheet, substitutions, status) and everything else persisted unchanged,
\* so the ledger endMatch would compute afterwards is the one it would have
\* computed without the call
C27_PlaytimeStatsIsPureRead ==
  [][res'.op = "getPlaytimeStats" =>
       /\ match'.playtime = match.playtime
       /\ match'.teamSheet = match.teamSheet
       /\ match'.substitutions = match.substitutions
       /\ match'.status = match.status
       /\ players' = players
       /\ statistics' = statistics
       /\ match.status = "ongoing" =>
            EndedMatch(match', now', [result |-> "win", ourScore |-> 5], FALSE, <<>>).playtime
              = EndedMatch(match, now, [result |-> "win", ourScore |-> 5], FALSE, <<>>).playtime]_vars

\* getPlaytimeStats was answered for an ongoing match with a substitution, at
\* an instant where the ledger it computed differs from the persisted one
C27_Witness ==
  /\ res = [op |-> "getPlaytimeStats", code |-> 200]
  /\ match.status = "ongoing"
  /\ match.substitutions # <<>>
  /\ PlaytimeStats(match, now) # match.playtime

\* C28: the team sheet written by generateTeamSheet holds no player more than
\* once, also when players list several preferredPositions
C28_GeneratedTeamSheetHasNoDuplicate ==
  (res.op = "generateTeamSheet" /\ res.code = 200) =>
    \A i \in DOMAIN match.teamSheet, j \in DOMAIN match.teamSheet :
      match.teamSheet[i] = match.teamSheet[j] => i = j

\* C29: with substitutions made at the time of the request, no ledger entry
\* ever exceeds the whole minutes elapsed since the creation of the match, and
\* a substitution credits the player going off with at most the whole minutes
\* between his coming on (the creation of the match for a starter) and his
\* going off
C29_LedgerWithinElapsedTime ==
  [][(res'.op \in {"makeSubstitution", "endMatch"} /\ res'.code = 200) =>
       /\ \A p \in DOMAIN match'.playtime :
            match'.playtime[p] <= MinutesBetween(match.createdAt, now)
       /\ res'.op = "makeSubstitution" =>
            LET record == match'.substitutions[Len(match'.substitutions)]
                cameOn == LastSubstitutionTime(match.substitutions, record.playerOut,
                                               match.createdAt)
            IN  match'.playtime[record.playerOut] - Ledger(match, record.playerOut)
                  <= MinutesBetween(cameOn, record.time)]_vars

\* C30: whenever a step sets the injuryStatus of a player to Major Injury, the
\* player is unavailable afterwards, and no startMatch is accepted while a
\* player of its team sheet has a Major Injury
C30_MajorInjuryMakesUnavailable ==
  [][/\ \A p \in Players :
          (players[p].injuryStatus # "Major Injury"
             /\ players'[p].injuryStatus = "Major Injury") => ~players'[p].availability
     /\ (res'.op = "startMatch" /\ res'.code = 201) =>
          \A p \in Range(match'.teamSheet) : players[p].injuryStatus # "Major Injury"]_vars
=============================================================================
